---- MODULE Spec2Model ----
(***************************************************************************)
(* Model of the MLIR code generator of the Solidity compiler for EraVM:    *)
(*   - the AST lowering engine (SolidityToMLIRPass),                       *)
(*   - the Solidity dialect lowering pass for EraVM (ObjectOpLowering,     *)
(*     ReturnOpLowering, ContractOpLowering, SolidityDialectLowering),     *)
(*   - the EraVM builder helpers (getABILen, getOrInsert*FuncOp).          *)
(*                                                                         *)
(* Representation of the IR.  An operation is a record                     *)
(*   [kind, sym, attr, tys, opnds, regions]                                *)
(* where sym is a symbol name (a sequence of name tokens, so that the      *)
(* suffix test endswith("_deployed") is a test on the last token), attr    *)
(* is the isRuntime attribute ("true", "false" or "none"), opnds is the    *)
(* sequence of operands and regions is a sequence of regions, a region     *)
(* being a sequence of blocks and a block a sequence of operations.        *)
(* Operations that only compute an SSA value (constants, inttoptr, shifts, *)
(* arithmetic, address-of, loads, extensions) are kept as the expression   *)
(* tree of the operand that uses them: <<tag, ...>> with a string tag.     *)
(* A 256-bit word is a sequence of 32 bytes, least significant first.      *)
(***************************************************************************)
EXTENDS Integers, Sequences, FiniteSets, TLC

\* ------------------------------------------------------------------------
\* Program constants (Target/EraVM/Util.h and the lowering pass)
\* ------------------------------------------------------------------------
AddrSpace_Stack == 0
AddrSpace_HeapAuxiliary == 2
AddrSpace_Generic == 3

ByteLen_X32 == 4
ByteLen_Field == 32
BitLen_Byte == 8
BitLen_X32 == BitLen_Byte * ByteLen_X32

HeapAuxOffsetCtorRetData == ByteLen_Field * 8
ExtraABIDataSize == 10

UseHeap == 0
ForwardFatPtr == 1
UseAuxHeap == 2

ArgIndexCallDataABI == 0
ArgIndexCallFlags == 1
MandatoryArgCnt == 2

\* Number of bytes of an i256 value.
WordBytes == 32

\* ------------------------------------------------------------------------
\* 256-bit words
\* ------------------------------------------------------------------------

\* The i256 constant of a small non-negative C++ integer (n < 2^31).
W(n) == [i \in 1..WordBytes |-> IF i <= 4 THEN (n \div (256 ^ (i - 1))) % 256 ELSE 0]

\* UINT_MAX of <climits> (32-bit unsigned) as an i256 constant.
UINT_MAX == [i \in 1..WordBytes |-> IF i <= ByteLen_X32 THEN 255 ELSE 0]

\* Byte at 0-based position j of w; positions past the word read as zero.
ByteAt(w, j) == IF j < WordBytes THEN w[j + 1] ELSE 0

RECURSIVE AndBits(_, _, _)
AndBits(a, b, n) ==
  IF n = 0 THEN 0
  ELSE ((a % 2) * (b % 2)) + 2 * AndBits(a \div 2, b \div 2, n - 1)

\* llvm.and on i256
AndW(a, b) == [i \in 1..WordBytes |-> AndBits(a[i], b[i], BitLen_Byte)]

\* llvm.lshr on i256 by k bits, 0 <= k < 256 (zero fill)
LShrW(a, k) ==
  LET bs == k \div BitLen_Byte
      r  == k % BitLen_Byte
  IN [i \in 1..WordBytes |->
        (ByteAt(a, i - 1 + bs) \div (2 ^ r))
        + ((ByteAt(a, i + bs) * (2 ^ (BitLen_Byte - r))) % 256)]

RECURSIVE AddCarry(_, _, _, _)
AddCarry(a, b, i, c) ==
  IF i > WordBytes THEN <<>>
  ELSE <<(a[i] + b[i] + c) % 256>> \o AddCarry(a, b, i + 1, (a[i] + b[i] + c) \div 256)

\* arith.addi on i256 (wraps modulo 2^256)
AddW(a, b) == AddCarry(a, b, 1, 0)

RECURSIVE MulCol(_, _, _, _)
\* Sum over j in 1..k of a[j] * b[k + 1 - j]
MulCol(a, b, k, j) ==
  IF j > k THEN 0 ELSE a[j] * b[k + 1 - j] + MulCol(a, b, k, j + 1)

RECURSIVE MulCarry(_, _, _, _)
MulCarry(a, b, k, c) ==
  IF k > WordBytes THEN <<>>
  ELSE LET s == MulCol(a, b, k, 1) + c
       IN <<s % 256>> \o MulCarry(a, b, k + 1, s \div 256)

\* arith.muli on i256 (wraps modulo 2^256)
MulW(a, b) == MulCarry(a, b, 1, 0)

\* ------------------------------------------------------------------------
\* IR: operations, blocks, regions
\* ------------------------------------------------------------------------
MkOp(kind, sym, attr, tys, opnds, regions) ==
  [kind |-> kind, sym |-> sym, attr |-> attr, tys |-> tys,
   opnds |-> opnds, regions |-> regions]

NoSym == <<>>

\* StringRef::endswith("_deployed") on a name given as its tokens
EndsWithDeployed(name) == Len(name) > 0 /\ name[Len(name)] = "_deployed"

\* A block path is the sequence of <<op index, region index, block index>>
\* steps that leads from the module body to a block; <<>> is the module body.
RECURSIVE BlockAt(_, _)
BlockAt(ops, P) ==
  IF P = <<>> THEN ops
  ELSE BlockAt(ops[P[1][1]].regions[P[1][2]][P[1][3]], Tail(P))

RECURSIVE SetBlock(_, _, _)
SetBlock(ops, P, new) ==
  IF P = <<>> THEN new
  ELSE [ops EXCEPT ![P[1][1]].regions[P[1][2]][P[1][3]] = SetBlock(@, Tail(P), new)]

RECURSIVE BlockPaths(_)
BlockPaths(ops) ==
  {<<>>} \cup
  UNION { UNION { UNION { { <<<<i, r, b>>>> \o p : p \in BlockPaths(ops[i].regions[r][b]) }
                          : b \in 1..Len(ops[i].regions[r]) }
                  : r \in 1..Len(ops[i].regions) }
          : i \in 1..Len(ops) }

\* The positions <<P, i>> of the operations of kind k in the module
OpsOfKind(ops, k) ==
  UNION { { <<P, i>> : i \in { j \in 1..Len(BlockAt(ops, P)) : BlockAt(ops, P)[j].kind = k } }
          : P \in BlockPaths(ops) }

\* Operation::getParentOfType: the enclosing operations of the block at P,
\* outermost first
RECURSIVE Ancestors(_, _)
Ancestors(ops, P) ==
  IF P = <<>> THEN <<>>
  ELSE <<ops[P[1][1]]>> \o Ancestors(ops[P[1][1]].regions[P[1][2]][P[1][3]], Tail(P))

\* Index of the nearest (innermost) ancestor of kind k, 0 when there is none
NearestOfKind(anc, k) ==
  LET S == { n \in 1..Len(anc) : anc[n].kind = k }
  IN IF S = {} THEN 0 ELSE CHOOSE n \in S : \A m \in S : m <= n

\* All operations nested anywhere under a block, in pre-order
RECURSIVE Flatten(_)
RECURSIVE FlattenRegions(_)
RECURSIVE FlattenBlocks(_)
Flatten(ops) ==
  IF ops = <<>> THEN <<>>
  ELSE <<Head(ops)>> \o FlattenRegions(Head(ops).regions) \o Flatten(Tail(ops))
FlattenRegions(rs) ==
  IF rs = <<>> THEN <<>> ELSE FlattenBlocks(Head(rs)) \o FlattenRegions(Tail(rs))
FlattenBlocks(bs) ==
  IF bs = <<>> THEN <<>> ELSE Flatten(Head(bs)) \o FlattenBlocks(Tail(bs))

CountKind(ops, k) ==
  LET f == Flatten(ops) IN Cardinality({ n \in 1..Len(f) : f[n].kind = k })

Remove(seq, i) == SubSeq(seq, 1, i - 1) \o SubSeq(seq, i + 1, Len(seq))

\* ------------------------------------------------------------------------
\* Builder helpers
\* ------------------------------------------------------------------------
\* solidity::mlirgen::BuilderHelper::getConst: the i256 constant of a value
Const(w) == <<"const", w>>
getConst(n) == Const(W(n))

\* ModuleOp::lookupSymbol<LLVM::LLVMFuncOp>(name): index of the first
\* top-level operation carrying the symbol, if it is an llvm.func; else 0
lookupLLVMFuncOp(m, name) ==
  LET S == { i \in 1..Len(m) : m[i].sym = name }
  IN IF S = {} THEN 0
     ELSE LET f == CHOOSE i \in S : \A j \in S : i <= j
          IN IF m[f].kind = "llvm.func" THEN f ELSE 0

\* A variant of getOrInsertLLVMFuncOp that declares the function again
\* although the module already holds it.
getOrInsertLLVMFuncOp_dup(m, name, tys, attr) ==
  <<MkOp("llvm.func", name, attr, tys, <<>>, << <<>> >>)>> \o m

\* A variant of getOrInsertLLVMFuncOp that gives a declaration it finds the
\* attributes of the call.
getOrInsertLLVMFuncOp_retag(m, name, tys, attr) ==
  IF lookupLLVMFuncOp(m, name) # 0
  THEN [m EXCEPT ![lookupLLVMFuncOp(m, name)].attr = attr]
  ELSE <<MkOp("llvm.func", name, attr, tys, <<>>, << <<>> >>)>> \o m

\* getOrInsertLLVMFuncOp: the module body after the call; a new declaration
\* (one region, no block) is created at the start of the module body
getOrInsertLLVMFuncOp(m, name, tys, attr) ==
  IF lookupLLVMFuncOp(m, name) # 0 THEN m
  ELSE <<MkOp("llvm.func", name, attr, tys, <<>>, << <<>> >>)>> \o m

getOrInsertCreationFuncOp(m, name, tys) == getOrInsertLLVMFuncOp(m, name, tys, "false")

getOrInsertRuntimeFuncOp(m, name, tys) == getOrInsertLLVMFuncOp(m, name, tys, "true")

\* getOrInsertReturn (through getOrInsertLLVMFuncSym): declares
\* __return(i256, i256, i256) with no isRuntime attribute
getOrInsertReturn(m) ==
  getOrInsertLLVMFuncOp(m, <<"__return">>, <<"i256", "i256", "i256">>, "none")

\* solidity::mlirgen::BuilderHelper::getOrInsertGlobalOp: a global is created
\* at most once per module per name
getOrInsertGlobalOp(m, name, ty) ==
  IF \E i \in 1..Len(m) : m[i].kind = "llvm.mlir.global" /\ m[i].sym = name THEN m
  ELSE <<MkOp("llvm.mlir.global", name, "none", <<ty>>, <<>>, <<>>)>> \o m

\* Rewriter::inlineRegionBefore(region, funcRegion, funcRegion.begin()) on the
\* llvm.func named name: the blocks are moved to the front of its region
inlineRegionBefore(m, name, blocks) ==
  LET f == lookupLLVMFuncOp(m, name)
  IN [m EXCEPT ![f].regions[1] = blocks \o @]

\* eravm::BuilderHelper::getABILen
getABILen_shift64(ptr) ==
  <<"and", <<"lshr", <<"ptrtoint", ptr>>, getConst(BitLen_X32 * 2)>>, Const(UINT_MAX)>>

getABILen(ptr) ==
  <<"and", <<"lshr", <<"ptrtoint", ptr>>, getConst(BitLen_X32 * 3)>>, Const(UINT_MAX)>>

\* ------------------------------------------------------------------------
\* Solidity dialect lowering pass for EraVM
\* ------------------------------------------------------------------------
VARIABLES
  input,      \* the body of the ModuleOp the pass was given
  mod,        \* the body of the ModuleOp: a sequence of operations
  passState,  \* "running", "success" or "failed" (signalPassFailure); "idle"
              \* where the pass is not run
  last,       \* the last pattern application: rule, context, rewritten op, place,
              \* and the insertion point of the rewriter when it returned, which
              \* was before the rewritten operation when it began
  run,        \* one execution of __entry: its arguments and its effects
  gen,        \* the state of the AST lowering engine (runSolidityToMLIRPass)
  call        \* one call of a builder helper: its arguments and its result

NoLast == [rule |-> "none", ctx |-> "none",
           op |-> MkOp("none", NoSym, "none", <<>>, <<>>, <<>>), path |-> <<>>, at |-> 0,
           before |-> <<>>, cursor |-> <<>>]

\* The block path P after an operation was inserted at the start of the module
ShiftPath(P, mOld, mNew) ==
  IF P # <<>> /\ Len(mNew) > Len(mOld)
  THEN <<<<P[1][1] + (Len(mNew) - Len(mOld)), P[1][2], P[1][3]>>>> \o Tail(P)
  ELSE P

\* A variant of inRuntimeContext that asks the outermost enclosing object
\* before the enclosing function.
inRuntimeContext_outermost(m, P) ==
  LET anc == Ancestors(m, P)
      parentFunc == NearestOfKind(anc, "llvm.func")
  IN IF anc # <<>> /\ anc[1].kind = "sol.object"
     THEN IF EndsWithDeployed(anc[1].sym) THEN "runtime" ELSE "creation"
     ELSE IF parentFunc # 0
          THEN IF anc[parentFunc].attr = "none" THEN "fatal"
               ELSE IF anc[parentFunc].attr = "true" THEN "runtime" ELSE "creation"
          ELSE "fatal"

\* inRuntimeContext: "runtime" or "creation"; "fatal" where the code asserts
\* or reaches llvm_unreachable
inRuntimeContext(m, P) ==
  LET anc == Ancestors(m, P)
      parentFunc == NearestOfKind(anc, "llvm.func")
      parentObj == NearestOfKind(anc, "sol.object")
  IN IF parentFunc # 0
     THEN IF anc[parentFunc].attr = "none" THEN "fatal"
          ELSE IF anc[parentFunc].attr = "true" THEN "runtime" ELSE "creation"
     ELSE IF parentObj # 0
          THEN IF EndsWithDeployed(anc[parentObj].sym) THEN "runtime" ELSE "creation"
          ELSE "fatal"

immutablesSize == 0

CallReturn(args) == MkOp("func.call", <<"__return">>, "none", <<>>, args, <<>>)
Unreachable == MkOp("llvm.unreachable", NoSym, "none", <<>>, <<>>, <<>>)
Store(val, addr) == MkOp("llvm.store", NoSym, "none", <<>>, <<val, addr>>, <<>>)
IntToPtr(e, addrSpace) == <<"inttoptr", e, addrSpace>>

\* ReturnOpLowering, runtime context: the operations created for retOp
RuntimeReturnOps_auxHeap(retOp) ==
  << CallReturn(<<retOp.opnds[1], retOp.opnds[2], getConst(UseAuxHeap)>>), Unreachable >>

RuntimeReturnOps(retOp) ==
  << CallReturn(<<retOp.opnds[1], retOp.opnds[2], getConst(UseHeap)>>), Unreachable >>

\* ReturnOpLowering, creation context: the operations created for retOp
CreationReturnOps_ownLen(retOp) ==
  << Store(getConst(ByteLen_Field),
           IntToPtr(getConst(HeapAuxOffsetCtorRetData), AddrSpace_HeapAuxiliary)),
     Store(getConst(immutablesSize \div ByteLen_Field),
           IntToPtr(getConst(HeapAuxOffsetCtorRetData + ByteLen_Field),
                    AddrSpace_HeapAuxiliary)),
     CallReturn(<<getConst(HeapAuxOffsetCtorRetData), retOp.opnds[2],
                  getConst(UseAuxHeap)>>),
     Unreachable >>

CreationReturnOps(retOp) ==
  << Store(getConst(ByteLen_Field),
           IntToPtr(getConst(HeapAuxOffsetCtorRetData), AddrSpace_HeapAuxiliary)),
     Store(getConst(immutablesSize \div ByteLen_Field),
           IntToPtr(getConst(HeapAuxOffsetCtorRetData + ByteLen_Field),
                    AddrSpace_HeapAuxiliary)),
     CallReturn(<<getConst(HeapAuxOffsetCtorRetData),
                  <<"addi", <<"muli", getConst(immutablesSize), getConst(2)>>,
                    getConst(ByteLen_Field * 2)>>,
                  getConst(UseAuxHeap)>>),
     Unreachable >>

\* ReturnOpLowering::matchAndRewrite on the sol.return at index i of block P
ReturnOpLowering(P, i) ==
  LET blk == BlockAt(mod, P)
      retOp == blk[i]
      ctx == inRuntimeContext(mod, P)
      new == IF ctx = "runtime" THEN RuntimeReturnOps(retOp) ELSE CreationReturnOps(retOp)
      m1 == SetBlock(mod, P, SubSeq(blk, 1, i - 1) \o new \o SubSeq(blk, i + 1, Len(blk)))
      m2 == getOrInsertReturn(m1)
  IN /\ passState = "running"
     /\ retOp.kind = "sol.return"
     /\ IF ctx = "fatal"
        THEN /\ passState' = "failed"
             /\ UNCHANGED <<mod, last>>
        ELSE /\ passState' = "running"
             /\ mod' = m2
             /\ last' = [rule |-> "return", ctx |-> ctx, op |-> retOp,
                         path |-> ShiftPath(P, m1, m2), at |-> i, before |-> blk,
                         \* the operations are created where the rewriter stood
                         cursor |-> <<"before", retOp>>]
     /\ UNCHANGED <<input, run, gen, call>>

\* The names of the EraVM globals
GlobHeapMemPtr == <<"memory_pointer">>
GlobCallDataSize == <<"calldatasize">>
GlobRetDataSz == <<"returndatasize">>
GlobCallFlags == <<"call_flags">>
GlobExtraABIData == <<"extra_abi_data">>
GlobCallDataPtr == <<"ptr_calldata">>
GlobRetDataPtr == <<"ptr_return_data">>
GlobActivePtr == <<"ptr_active">>

AddressOf(name) == <<"addressof", name>>
EntryArg(k) == <<"arg", k>>
LLVMCall(name) == MkOp("llvm.call", name, "none", <<>>, <<>>, <<>>)
Yield == MkOp("scf.yield", NoSym, "none", <<>>, <<>>, <<>>)

\* ObjectOpLowering: the parameter types of __entry (inTys)
EntryArgTys_plusOne ==
  <<"ptr3">> \o [k \in 1..(MandatoryArgCnt + ExtraABIDataSize) |-> "i256"]

EntryArgTys ==
  <<"ptr3">> \o [k \in 1..(MandatoryArgCnt + ExtraABIDataSize - 1) |-> "i256"]

\* eravm::BuilderHelper::initGlobs: the stores it creates
initGlobsOps ==
  << Store(getConst(0), AddressOf(GlobHeapMemPtr)),
     Store(getConst(0), AddressOf(GlobCallDataSize)),
     Store(getConst(0), AddressOf(GlobRetDataSz)),
     Store(getConst(0), AddressOf(GlobCallFlags)),
     Store(<<"constsplat", [k \in 1..ExtraABIDataSize |-> W(0)]>>,
           AddressOf(GlobExtraABIData)) >>

\* eravm::BuilderHelper::initGlobs: the globals it declares
initGlobsDecls(m) ==
  getOrInsertGlobalOp(
    getOrInsertGlobalOp(
      getOrInsertGlobalOp(
        getOrInsertGlobalOp(
          getOrInsertGlobalOp(m, GlobHeapMemPtr, "i256"),
          GlobCallDataSize, "i256"),
        GlobRetDataSz, "i256"),
      GlobCallFlags, "i256"),
    GlobExtraABIData, "array10xi256")

\* ObjectOpLowering: the address stored to ptr_return_data and ptr_active
retDataABIInitializer ==
  <<"gep", EntryArg(ArgIndexCallDataABI), <<<<"load", AddressOf(GlobCallDataSize)>>>> >>

\* ObjectOpLowering: the condition of the dispatch
isDeployCallFlag_noMask ==
  <<"cmpi_eq", EntryArg(ArgIndexCallFlags), getConst(1)>>

isDeployCallFlag ==
  <<"cmpi_eq", <<"andi", EntryArg(ArgIndexCallFlags), getConst(1)>>, getConst(1)>>

\* ObjectOpLowering: the dispatch, then branch first
DispatchIf ==
  MkOp("scf.if", NoSym, "none", <<>>, <<isDeployCallFlag>>,
       << << <<LLVMCall(<<"__deploy">>), Yield>> >>,
          << <<LLVMCall(<<"__runtime">>), Yield>> >> >>)

\* ObjectOpLowering: the body of __entry
EntryBlock ==
  initGlobsOps
  \o << Store(EntryArg(ArgIndexCallDataABI), AddressOf(GlobCallDataPtr)),
        Store(getABILen(AddressOf(GlobCallDataPtr)), AddressOf(GlobCallDataSize)),
        Store(retDataABIInitializer, AddressOf(GlobRetDataPtr)),
        Store(retDataABIInitializer, AddressOf(GlobActivePtr)),
        Store(EntryArg(ArgIndexCallFlags), AddressOf(GlobCallFlags)) >>
  \o [k \in 1..(Len(EntryArgTys) - 2) |->
        Store(EntryArg(k + 1),
              <<"gep", AddressOf(GlobExtraABIData), <<getConst(0), getConst(k + 1)>> >>)]
  \o << DispatchIf, Unreachable >>

EntryFunc == MkOp("func.func", <<"__entry">>, "none", EntryArgTys, <<>>, << <<EntryBlock>> >>)

\* ObjectOpLowering: the globals declared while the body of __entry is built
EntryDecls(m) ==
  getOrInsertGlobalOp(
    getOrInsertGlobalOp(
      getOrInsertGlobalOp(initGlobsDecls(m), GlobCallDataPtr, "ptr3"),
      GlobRetDataPtr, "ptr3"),
    GlobActivePtr, "ptr3")

\* A variant of InlineNested that leaves the regions of the nested objects
\* where they are, so that they go with the erased objects.
InlineNested_drop(m, body) == m

\* The nested objects of a block moved under __runtime, in iteration order
RECURSIVE InlineNested(_, _)
InlineNested(m, body) ==
  IF body = <<>> THEN m
  ELSE IF Head(body).kind = "sol.object"
       THEN InlineNested(inlineRegionBefore(m, <<"__runtime">>, Head(body).regions[1]),
                         Tail(body))
       ELSE InlineNested(m, Tail(body))

WithoutObjects(body) == SelectSeq(body, LAMBDA o : o.kind # "sol.object")

\* ObjectOpLowering::matchAndRewrite on the sol.object at index i of block P
ObjectOpLowering(P, i) ==
  LET blk == BlockAt(mod, P)
      objOp == blk[i]
      erased == SetBlock(mod, P, Remove(blk, i))
      \* runtime object: its region goes under __runtime
      r1 == getOrInsertRuntimeFuncOp(erased, <<"__runtime">>, <<>>)
      r2 == inlineRegionBefore(r1, <<"__runtime">>, objOp.regions[1])
      \* creation object: __entry at the end of the module, then the rest
      c1 == EntryDecls(erased \o <<EntryFunc>>)
      c2 == getOrInsertRuntimeFuncOp(c1, <<"__runtime">>, <<>>)
      c3 == InlineNested(c2, objOp.regions[1][1])
      c4 == getOrInsertCreationFuncOp(c3, <<"__deploy">>, <<>>)
      c5 == inlineRegionBefore(c4, <<"__deploy">>,
                               <<WithoutObjects(objOp.regions[1][1])>>
                               \o Tail(objOp.regions[1]))
  IN /\ passState = "running"
     /\ objOp.kind = "sol.object"
     /\ passState' = "running"
     /\ mod' = IF EndsWithDeployed(objOp.sym) THEN r2 ELSE c5
     /\ last' = [rule |-> "object",
                 ctx |-> IF EndsWithDeployed(objOp.sym) THEN "runtime" ELSE "creation",
                 op |-> objOp, path |-> P, at |-> i, before |-> blk,
                 \* setInsertionPointToEnd(mod.getBody()), createBlock and
                 \* setInsertionPointAfter(ifOp) move the cursor of the rewriter;
                 \* the last operation created is the llvm.unreachable of __entry
                 cursor |-> IF EndsWithDeployed(objOp.sym) THEN <<"before", objOp>>
                            ELSE <<"after", <<"__entry">>, Unreachable>>]
     /\ UNCHANGED <<input, run, gen, call>>

\* ContractOpLowering::matchAndRewrite: Operation::moveAfter(modBody,
\* modBody->begin()) of every function, in the order of the contract body
RECURSIVE MoveFuncs(_, _)
MoveFuncs(m, funcs) ==
  IF funcs = <<>> THEN m
  ELSE MoveFuncs(<<Head(m)>> \o <<Head(funcs)>> \o Tail(m), Tail(funcs))

\* ContractOpLowering::matchAndRewrite on the sol.contract at module index i
ContractOpLowering(i) ==
  LET contOp == mod[i]
      funcs == contOp.regions[1][1]
      emptied == [mod EXCEPT ![i].regions[1][1] = <<>>]
      moved == MoveFuncs(emptied, funcs)
      \* the emptied container, which the moves shift unless it is the first op
      at == IF i = 1 THEN 1 ELSE i + Len(funcs)
  IN /\ passState = "running"
     /\ contOp.kind = "sol.contract"
     /\ passState' = "running"
     /\ mod' = Remove(moved, at)
     /\ last' = [rule |-> "contract", ctx |-> "none", op |-> contOp, path |-> <<>>,
                 at |-> i, before |-> mod, cursor |-> <<"before", contOp>>]
     /\ UNCHANGED <<input, run, gen, call>>

\* ------------------------------------------------------------------------
\* Execution of the operations the pass creates
\* ------------------------------------------------------------------------
\* The value of a small word as a number (used for shift amounts and indices)
ToInt(w) == w[1] + 256 * w[2]

\* The memory location an address expression denotes
RECURSIVE Eval(_, _, _)
Loc(e, env, mem) ==
  CASE e[1] = "addressof" -> <<"glob", e[2], 0>>
    [] e[1] = "gep" /\ e[2][1] = "addressof" ->
         <<"glob", e[2][2], ToInt(Eval(e[3][Len(e[3])], env, mem))>>
    [] e[1] = "inttoptr" -> <<"mem", e[3], Eval(e[2], env, mem)>>
    [] OTHER -> <<"unknown">>

\* The last value stored to location l; mem is the sequence of stores so far
RECURSIVE Lookup(_, _)
Lookup(mem, l) ==
  IF mem = <<>> THEN W(0)
  ELSE IF mem[Len(mem)][1] = l THEN mem[Len(mem)][2]
       ELSE Lookup(SubSeq(mem, 1, Len(mem) - 1), l)

\* The value of an operand; env gives the block arguments and the address the
\* linker gave the globals
Eval(e, env, mem) ==
  CASE e[1] = "const" -> e[2]
    [] e[1] = "constsplat" -> e[2]
    [] e[1] = "arg" -> env.args[e[2] + 1]
    [] e[1] = "addressof" -> env.globAddr
    [] e[1] = "ptrtoint" -> Eval(e[2], env, mem)
    [] e[1] = "inttoptr" -> Eval(e[2], env, mem)
    [] e[1] = "lshr" -> LShrW(Eval(e[2], env, mem), ToInt(Eval(e[3], env, mem)))
    [] e[1] = "and" -> AndW(Eval(e[2], env, mem), Eval(e[3], env, mem))
    [] e[1] = "andi" -> AndW(Eval(e[2], env, mem), Eval(e[3], env, mem))
    [] e[1] = "addi" -> AddW(Eval(e[2], env, mem), Eval(e[3], env, mem))
    [] e[1] = "muli" -> MulW(Eval(e[2], env, mem), Eval(e[3], env, mem))
    [] e[1] = "cmpi_eq" ->
         IF Eval(e[2], env, mem) = Eval(e[3], env, mem) THEN W(1) ELSE W(0)
    [] e[1] = "load" -> Lookup(mem, Loc(e[2], env, mem))
    [] e[1] = "gep" -> AddW(Eval(e[2], env, mem), Eval(e[3][1], env, mem))

\* The value of an operand that depends on no argument and no memory
NoEnv == [args |-> <<>>, globAddr |-> W(0)]
EvalConst(e) == Eval(e, NoEnv, <<>>)

\* Runs a block: st.mem is the sequence of <<location, value>> stores,
\* st.trace the sequence of events, st.halt is set by a terminator
RECURSIVE Exec(_, _, _)
Exec(ops, env, st) ==
  IF ops = <<>> \/ st.halt THEN st
  ELSE LET o == Head(ops)
           next ==
             CASE o.kind = "llvm.store" ->
                    LET l == Loc(o.opnds[2], env, st.mem)
                        v == Eval(o.opnds[1], env, st.mem)
                    IN [st EXCEPT !.mem = Append(@, <<l, v>>),
                                  !.trace = Append(@, <<"store", l, v>>)]
               [] o.kind = "llvm.call" ->
                    [st EXCEPT !.trace = Append(@, <<"call", o.sym>>)]
               [] o.kind = "func.call" ->
                    [st EXCEPT !.trace = Append(@, <<"call", o.sym>>)]
               [] o.kind = "scf.if" ->
                    IF Eval(o.opnds[1], env, st.mem) = W(1)
                    THEN Exec(o.regions[1][1], env, st)
                    ELSE Exec(o.regions[2][1], env, st)
               [] o.kind = "llvm.unreachable" ->
                    [st EXCEPT !.trace = Append(@, <<"unreachable">>), !.halt = TRUE]
               [] OTHER -> st
       IN Exec(Tail(ops), env, next)

\* ------------------------------------------------------------------------
\* Input modules
\* ------------------------------------------------------------------------
\* Bounds of the inputs
MaxBody == 2
MaxNested == 1
MaxEntryBody == 1
MaxFuncs == 2
MaxContracts == 2

RetOp(off, len) == MkOp("sol.return", NoSym, "none", <<>>, <<getConst(off), getConst(len)>>, <<>>)

\* sol.object: one region holding one block
ObjectOp(name, body) == MkOp("sol.object", name, "none", <<>>, <<>>, << <<body>> >>)
\* sol.contract: one region holding one block of functions
ContractOp(name, funcs) == MkOp("sol.contract", name, "none", <<>>, <<>>, << <<funcs>> >>)
\* func.func of the function name of contract c (c is kept as its location)
FuncOp(c, name) ==
  MkOp("func.func", <<name>>, "none", <<>>, <<<<"loc", c>>>>, 
       << <<<<MkOp("func.return", NoSym, "none", <<>>, <<>>, <<>>)>>>> >>)

\* The bodies tried: sequences of a sol.return and an arith.constant
Bodies(n) ==
  UNION { [1..k -> {RetOp(7, 5),
                    MkOp("arith.constant", NoSym, "none", <<>>, <<getConst(42)>>, <<>>)}]
          : k \in 0..n }

Foo == <<"Foo">>
Foo_deployed == <<"Foo", "_deployed">>

\* What the Yul front end produces: an object, its code, then its sub-object
ObjectModules(n, nn) ==
  { <<ObjectOp(Foo, b)>> : b \in Bodies(n) }
  \cup { <<ObjectOp(Foo, b \o <<ObjectOp(Foo_deployed, nb)>>)>> : b \in Bodies(n), nb \in Bodies(nn) }
  \cup { <<ObjectOp(Foo_deployed, b)>> : b \in Bodies(n) }

ContractNames == <<"A", "B", "C", "D">>
FuncLists ==
  UNION { { s \in [1..k -> {"f", "g", "h"}] : \A x, y \in 1..k : x # y => s[x] # s[y] }
          : k \in 0..MaxFuncs }

\* What the AST lowering engine produces: contracts holding functions
ContractModules ==
  UNION { { [c \in 1..n |-> ContractOp(<<ContractNames[c]>>, [x \in 1..Len(fl[c]) |-> FuncOp(ContractNames[c], fl[c][x])])]
            : fl \in [1..n -> FuncLists] }
          : n \in 1..MaxContracts }

\* Arguments of __entry used when the lowered module is run
HighBit == [i \in 1..WordBytes |-> IF i = WordBytes THEN 128 ELSE 0]
AllOnes == [i \in 1..WordBytes |-> 255]

\* ------------------------------------------------------------------------
\* SolidityDialectLowering::runOnOperation (applyFullConversion)
\* ------------------------------------------------------------------------
vars == <<input, mod, passState, last, run, gen, call>>

NoRun == [done |-> FALSE, args |-> <<>>, trace |-> <<>>]
NoGen == [pc |-> "none"]
NoCall == [fn |-> "none"]

Init ==
  /\ mod \in ObjectModules(MaxBody, MaxNested) \cup ContractModules
  /\ passState = "running"
  /\ last = NoLast
  /\ input = mod
  /\ run = NoRun
  /\ gen = NoGen
  /\ call = NoCall

ApplyObjectOpLowering ==
  \E pos \in OpsOfKind(mod, "sol.object") : ObjectOpLowering(pos[1], pos[2])

ApplyReturnOpLowering ==
  \E pos \in OpsOfKind(mod, "sol.return") : ReturnOpLowering(pos[1], pos[2])

\* The operation kinds for which runOnOperation registers a pattern
Registered == {"sol.object", "sol.return"}
SolKinds == {"sol.object", "sol.return", "sol.contract"}

\* An illegal operation no registered pattern matches: the conversion fails
FailToLegalize ==
  /\ passState = "running"
  /\ \E k \in SolKinds \ Registered : OpsOfKind(mod, k) # {}
  /\ passState' = "failed"
  /\ UNCHANGED <<input, mod, last, run, gen, call>>

\* Every operation is legal: the conversion succeeds
ConversionDone ==
  /\ passState = "running"
  /\ \A k \in SolKinds : OpsOfKind(mod, k) = {}
  /\ passState' = "success"
  /\ UNCHANGED <<input, mod, last, run, gen, call>>

\* One execution of the synthesized __entry of the lowered module
CallEntry ==
  /\ passState = "success"
  /\ ~run.done
  /\ \E i \in { i \in 1..Len(mod) : mod[i].kind = "func.func" /\ mod[i].sym = <<"__entry">> },
        ptr \in {W(0), AllOnes},
        flags \in {W(0), W(1), W(2), W(3), HighBit, AllOnes},
        ga \in {W(4096)} :
       LET args == <<ptr, flags>> \o [k \in 1..(Len(mod[i].tys) - 2) |-> W(100 + k)]
       IN run' = [done |-> TRUE, args |-> args,
                  trace |-> Exec(mod[i].regions[1][1], [args |-> args, globAddr |-> ga],
                                 [mem |-> <<>>, trace |-> <<>>, halt |-> FALSE]).trace]
  /\ UNCHANGED <<input, mod, passState, last, gen, call>>

Next ==
  \/ ApplyObjectOpLowering
  \/ ApplyReturnOpLowering
  \/ FailToLegalize
  \/ ConversionDone

Spec == Init /\ [][Next]_vars

\* The pass followed by one execution of the entry function it synthesized
InitEntry ==
  /\ mod \in ObjectModules(MaxEntryBody, MaxEntryBody)
  /\ passState = "running"
  /\ last = NoLast
  /\ input = mod
  /\ run = NoRun
  /\ gen = NoGen
  /\ call = NoCall

NextEntry ==
  \/ ApplyObjectOpLowering
  \/ ApplyReturnOpLowering
  \/ ConversionDone
  \/ CallEntry

SpecEntry == InitEntry /\ [][NextEntry]_vars

\* The contract rewrite rule applied by itself to the contracts of a module
InitContract ==
  /\ mod \in ContractModules
  /\ passState = "running"
  /\ last = NoLast
  /\ input = mod
  /\ run = NoRun
  /\ gen = NoGen
  /\ call = NoCall

ApplyContractOpLowering ==
  \E i \in 1..Len(mod) : mod[i].kind = "sol.contract" /\ ContractOpLowering(i)

SpecContract == InitContract /\ [][ApplyContractOpLowering \/ ConversionDone]_vars

\* ------------------------------------------------------------------------
\* AST lowering engine (SolidityToMLIRPass)
\* ------------------------------------------------------------------------
\* Solidity types: k is "int", "rat" (integral rational number type of the
\* literal value val), "ratfrac" (fractional rational) or "bool"
IntegerType(bits, signed) == [k |-> "int", bits |-> bits, signed |-> signed, val |-> 0]
RationalNumberType(v) == [k |-> "rat", bits |-> 0, signed |-> FALSE, val |-> v]
FractionalType == [k |-> "ratfrac", bits |-> 0, signed |-> FALSE, val |-> 0]
BoolType == [k |-> "bool", bits |-> 0, signed |-> FALSE, val |-> 0]

\* RationalNumberType::integerType: the smallest unsigned integer type that
\* holds the (non-negative) value
integerType(ty) ==
  IntegerType(IF ty.val < 256 THEN 8 ELSE IF ty.val < 65536 THEN 16 ELSE 32, FALSE)

\* genCast's getAsIntTy: <<the integer type>>, or <<>> for nullptr
getAsIntTy(ty) ==
  IF ty.k = "int" THEN <<ty>>
  ELSE IF ty.k = "rat" THEN <<integerType(ty)>>
  ELSE <<>>

NullValue == <<"null">>
Thrown == [thrown |-> TRUE, val |-> NullValue]
Ok(v) == [thrown |-> FALSE, val |-> v]

\* SolidityToMLIRPass::type: the bit width of the signless integer type
type(ty) ==
  IF ty.k = "int" THEN Ok(ty.bits)
  ELSE IF ty.k = "rat" THEN Ok(integerType(ty).bits)
  ELSE Thrown

\* Variants of genCast: one extends by the signedness of the source, one
\* truncates instead of failing on a narrowing cast.
genCast_srcSign(val, srcTy, dstTy) ==
  IF srcTy = dstTy THEN Ok(val)
  ELSE LET s == getAsIntTy(srcTy)
           d == getAsIntTy(dstTy)
       IN IF s # <<>> /\ d # <<>> /\ d[1].bits > s[1].bits
          THEN Ok(<<IF s[1].signed THEN "arith.extsi" ELSE "arith.extui", val, d[1].bits>>)
          ELSE Thrown

genCast_trunc(val, srcTy, dstTy) ==
  IF srcTy = dstTy THEN Ok(val)
  ELSE LET s == getAsIntTy(srcTy)
           d == getAsIntTy(dstTy)
       IN IF s # <<>> /\ d # <<>>
          THEN IF d[1].bits > s[1].bits
               THEN Ok(<<IF d[1].signed THEN "arith.extsi" ELSE "arith.extui", val, d[1].bits>>)
               ELSE Ok(<<"arith.trunci", val, d[1].bits>>)
          ELSE Thrown

\* SolidityToMLIRPass::genCast
genCast(val, srcTy, dstTy) ==
  IF srcTy = dstTy THEN Ok(val)
  ELSE LET s == getAsIntTy(srcTy)
           d == getAsIntTy(dstTy)
       IN IF s # <<>> /\ d # <<>>
          THEN IF d[1].bits > s[1].bits
               THEN Ok(<<IF d[1].signed THEN "arith.extsi" ELSE "arith.extui", val,
                         type(d[1]).val>>)
               ELSE Thrown
          ELSE Thrown

\* ------------------------------------------------------------------------
\* Single calls of the helpers
\* ------------------------------------------------------------------------
CastTypes ==
  { IntegerType(b, sg) : b \in {8, 16, 32, 256}, sg \in BOOLEAN }
  \cup { RationalNumberType(5), RationalNumberType(300), FractionalType, BoolType }

InitCast ==
  /\ call \in { [fn |-> "genCast", val |-> v, src |-> s, dst |-> d, done |-> FALSE,
                 res |-> Thrown] : v \in { <<"blockarg", 0>> }, s \in CastTypes, d \in CastTypes }
  /\ mod = <<>> /\ input = <<>> /\ passState = "idle" /\ last = NoLast
  /\ run = NoRun /\ gen = NoGen

CallGenCast ==
  /\ call.fn = "genCast" /\ ~call.done
  /\ call' = [call EXCEPT !.done = TRUE, !.res = genCast(call.val, call.src, call.dst)]
  /\ UNCHANGED <<input, mod, passState, last, run, gen>>

SpecCast == InitCast /\ [][CallGenCast]_vars

\* The length field of a fat pointer: the 4 bytes at bit offset 96
WithLen(other, len) ==
  [i \in 1..WordBytes |-> IF i \in 13..16 THEN len[i - 12] ELSE other[i]]

InitABI ==
  /\ call \in { [fn |-> "getABILen", len |-> l, ptr |-> WithLen(o, l), done |-> FALSE,
                 res |-> W(0)] : l \in [1..ByteLen_X32 -> {0, 1, 128, 255}],
                               o \in {W(0), AllOnes, HighBit} }
  /\ mod = <<>> /\ input = <<>> /\ passState = "idle" /\ last = NoLast
  /\ run = NoRun /\ gen = NoGen

\* The operations getABILen creates, applied to the pointer
CallGetABILen ==
  /\ call.fn = "getABILen" /\ ~call.done
  /\ call' = [call EXCEPT !.done = TRUE,
                          !.res = Eval(getABILen(EntryArg(0)),
                                       [args |-> <<call.ptr>>, globAddr |-> W(0)], <<>>)]
  /\ UNCHANGED <<input, mod, passState, last, run, gen>>

SpecABI == InitABI /\ [][CallGetABILen]_vars

\* ------------------------------------------------------------------------
\* AST lowering engine: expressions, statements, functions, contracts
\* ------------------------------------------------------------------------
\* AST nodes.  An expression is [kind, ty, val, decl, op, kids] with ty its
\* annotation().type; a function is [name, params, rets, body] with body the
\* Return statements the visitor meets, in order; a Return is [expr] with expr
\* <<>> or <<the expression>>.
Literal(v) ==
  [kind |-> "Literal", ty |-> RationalNumberType(v), val |-> v, decl |-> <<>>,
   op |-> "", kids |-> <<>>]
Identifier(decl, ty) ==
  [kind |-> "Identifier", ty |-> ty, val |-> 0, decl |-> decl, op |-> "", kids |-> <<>>]
BinaryOperation(op, l, r, ty) ==
  [kind |-> "BinaryOperation", ty |-> ty, val |-> 0, decl |-> <<>>, op |-> op,
   kids |-> <<l, r>>]

\* std::map::operator[] on varMemRef (a sequence of <<declaration, value>>):
\* a missing key is inserted with a null value
HasMemRef(map, decl) == \E n \in 1..Len(map) : map[n][1] = decl
getMemRef(map, decl) ==
  IF HasMemRef(map, decl)
  THEN [map |-> map, val |-> map[CHOOSE n \in 1..Len(map) : map[n][1] = decl][2]]
  ELSE [map |-> Append(map, <<decl, NullValue>>), val |-> NullValue]

setMemRef(map, decl, addr) ==
  IF HasMemRef(map, decl)
  THEN [n \in 1..Len(map) |-> IF map[n][1] = decl THEN <<decl, addr>> ELSE map[n]]
  ELSE Append(map, <<decl, addr>>)

\* SolidityToMLIRPass::genExpr(Literal const *)
genExprLiteral(lit) ==
  IF lit.ty.k = "rat"
  THEN Ok(<<"arith.constant", lit.val, type(lit.ty).val>>)
  ELSE Thrown

\* Value::getLoc() on a null value, in genCast's widening branch
CastDerefsNull(val, srcTy, dstTy) ==
  /\ val = NullValue
  /\ srcTy # dstTy
  /\ ~genCast(val, srcTy, dstTy).thrown

\* The result of lowering an expression: the value, whether
\* UnimplementedFeature was thrown, whether a null value was dereferenced,
\* varMemRef and the genCast calls so far
ExprRes(thrown, ub, val, map, casts) ==
  [thrown |-> thrown, ub |-> ub, val |-> val, map |-> map, casts |-> casts]

\* The optional cast that ends genExpr(Expression const *, resTy), applied
\* to the value v the expression lowered to
genExprCast(expr, resTy, v) ==
  IF v.thrown \/ v.ub \/ resTy = <<>> THEN v
  ELSE ExprRes(genCast(v.val, expr.ty, resTy[1]).thrown,
               CastDerefsNull(v.val, expr.ty, resTy[1]),
               genCast(v.val, expr.ty, resTy[1]).val, v.map,
               Append(v.casts, [src |-> expr.ty, dst |-> resTy[1],
                                thrown |-> genCast(v.val, expr.ty, resTy[1]).thrown]))

\* The arith operation genExpr(BinaryOperation const *) creates from its
\* lowered operands; building it from a null operand dereferences the null
\* value
genExprArith(binOp, lhs, rhs) ==
  IF rhs.thrown \/ rhs.ub THEN rhs
  ELSE IF binOp.op \in {"Add", "Mul"}
       THEN ExprRes(FALSE, lhs.val = NullValue \/ rhs.val = NullValue,
                    <<IF binOp.op = "Add" THEN "arith.addi" ELSE "arith.muli",
                      lhs.val, rhs.val>>, rhs.map, rhs.casts)
  ELSE ExprRes(TRUE, FALSE, NullValue, rhs.map, rhs.casts)

\* SolidityToMLIRPass::genExpr(Expression const *, resTy); resTy is <<>> for
\* std::nullopt.  Lowering stops at a thrown exception and at a dereference
\* of a null value.
RECURSIVE genExpr(_, _, _, _)
\* SolidityToMLIRPass::genExpr(BinaryOperation const *), lhs being its lowered
\* left operand
genExprBinary(binOp, lhs) ==
  IF lhs.thrown \/ lhs.ub THEN lhs
  ELSE genExprArith(binOp, lhs, genExpr(binOp.kids[2], <<binOp.ty>>, lhs.map, lhs.casts))

genExpr(expr, resTy, map, casts) ==
  IF expr.kind = "Identifier"
  THEN ExprRes(FALSE, getMemRef(map, expr.decl).val = NullValue,
               <<"memref.load", getMemRef(map, expr.decl).val>>,
               getMemRef(map, expr.decl).map, casts)
  ELSE genExprCast(expr, resTy,
         IF expr.kind = "Literal"
         THEN ExprRes(genExprLiteral(expr).thrown, FALSE, genExprLiteral(expr).val,
                      map, casts)
         ELSE IF expr.kind = "BinaryOperation"
         THEN genExprBinary(expr, genExpr(expr.kids[1], <<expr.ty>>, map, casts))
         ELSE ExprRes(FALSE, FALSE, NullValue, map, casts))

FuncReturnOp(vals) == MkOp("func.return", NoSym, "none", <<>>, vals, <<>>)

\* The state of the lowering of one function: the operations of its entry
\* block so far, whether an exception was thrown, whether a null value was
\* dereferenced, varMemRef, the genCast calls
FuncState(body, thrown, ub, map, casts) ==
  [body |-> body, thrown |-> thrown, ub |-> ub, map |-> map, casts |-> casts]

\* The func.return visit(Return const &) creates from the lowered expression;
\* building it from a null operand dereferences the null value
visitReturnOp(st, e) ==
  IF e.thrown \/ e.ub THEN FuncState(st.body, e.thrown, e.ub, e.map, e.casts)
  ELSE IF e.val = NullValue THEN FuncState(st.body, FALSE, TRUE, e.map, e.casts)
  ELSE FuncState(Append(st.body, FuncReturnOp(<<e.val>>)), FALSE, FALSE, e.map, e.casts)

\* SolidityToMLIRPass::visit(Return const &)
visitReturn(ret, func, st) ==
  IF func.rets = <<>> THEN st
  ELSE IF Len(func.rets) # 1 THEN [st EXCEPT !.thrown = TRUE]
  ELSE IF ret.expr # <<>>
       THEN visitReturnOp(st, genExpr(ret.expr[1], <<func.rets[1]>>, st.map, st.casts))
       ELSE [st EXCEPT !.thrown = TRUE]

\* func.accept(*this): the Return statements of the body, in order
RECURSIVE visitBody(_, _, _)
visitBody(stmts, func, st) ==
  IF stmts = <<>> \/ st.thrown \/ st.ub THEN st
  ELSE visitBody(Tail(stmts), func, visitReturn(Head(stmts), func, st))


\* A function is [name, params, rets, body]: params a sequence of
\* [decl, ty], rets the declared result types, body its Return statements
Function(name, params, rets, body) ==
  [name |-> name, params |-> params, rets |-> rets, body |-> body]
Return(expr) == [expr |-> expr]
Contract(name, funcs) == [name |-> name, funcs |-> funcs]

\* The memref a memref.alloca of a declaration yields, with its element width
AllocaVal(decl, bits) == <<"memref.alloca", decl, bits>>

\* The types of a parameter list through type(); thrown if one is unhandled
TypesOf(tys) ==
  [thrown |-> \E n \in 1..Len(tys) : type(tys[n]).thrown,
   tys |-> [n \in 1..Len(tys) |-> type(tys[n]).val]]

\* The prologue of run(FunctionDefinition): an alloca and a store of the block
\* argument for every parameter, each recorded in varMemRef
RECURSIVE ParamPrologue(_, _, _, _)
ParamPrologue(params, n, inpTys, st) ==
  IF n > Len(params) THEN st
  ELSE LET decl == params[n].decl
       IN ParamPrologue(params, n + 1, inpTys,
            [st EXCEPT !.body = st.body \o
                         <<MkOp("memref.alloca", NoSym, "none", <<inpTys[n]>>, <<decl>>, <<>>),
                           MkOp("memref.store", NoSym, "none", <<>>,
                                <<<<"blockarg", n - 1>>, AllocaVal(decl, inpTys[n])>>, <<>>)>>,
                       !.map = setMemRef(st.map, decl, AllocaVal(decl, inpTys[n]))])

\* The end of run(FunctionDefinition const &): the empty func.return of a
\* function without results, after the body st was visited
runFunctionEnd(func, inpTys, outTys, st) ==
  [op |-> <<MkOp("func.func", <<func.name>>, "none", <<inpTys, outTys>>, <<>>,
                 << <<IF outTys = <<>> /\ ~st.thrown /\ ~st.ub
                      THEN Append(st.body, FuncReturnOp(<<>>))
                      ELSE st.body>> >>)>>,
   thrown |-> st.thrown, ub |-> st.ub, map |-> st.map, casts |-> st.casts]

\* SolidityToMLIRPass::run(FunctionDefinition const &): op is <<>> when the
\* exception left before the func.func was created
runFunction(func, map, casts) ==
  IF \/ TypesOf([n \in 1..Len(func.params) |-> func.params[n].ty]).thrown
     \/ TypesOf(func.rets).thrown
     \/ Len(func.rets) > 1
  THEN [op |-> <<>>, thrown |-> TRUE, ub |-> FALSE, map |-> map, casts |-> casts]
  ELSE runFunctionEnd(func, TypesOf([n \in 1..Len(func.params) |-> func.params[n].ty]).tys,
                      TypesOf(func.rets).tys,
         visitBody(func.body, func,
                   ParamPrologue(func.params, 1,
                                 TypesOf([n \in 1..Len(func.params) |-> func.params[n].ty]).tys,
                                 FuncState(<<>>, FALSE, FALSE, map, casts))))

\* The state of the lowering of one contract: the functions created so far,
\* the functions run() was entered for, and the state handed on
ContState(ops, entered, thrown, ub, map, casts) ==
  [ops |-> ops, entered |-> entered, thrown |-> thrown, ub |-> ub, map |-> map,
   casts |-> casts]

\* One iteration of the loop of run(ContractDefinition const &): f is what
\* run(func) left
runFunctionsStep(st, func, f) ==
  ContState(st.ops \o f.op,
            Append(st.entered, [name |-> func.name, rets |-> Len(func.rets)]),
            f.thrown, f.ub, f.map, f.casts)

\* The loop of run(ContractDefinition const &) over definedFunctions()
RECURSIVE runFunctions(_, _)
runFunctions(funcs, st) ==
  IF funcs = <<>> \/ st.thrown \/ st.ub THEN st
  ELSE runFunctions(Tail(funcs),
         runFunctionsStep(st, Head(funcs), runFunction(Head(funcs), st.map, st.casts)))

\* SolidityToMLIRPass::run(ContractDefinition const &): ops are the functions
\* left in the body of its sol.contract
runContract(cont, map, casts) ==
  runFunctions(cont.funcs, ContState(<<>>, <<>>, FALSE, FALSE, map, casts))

\* Value::getType: the width of the signless integer type of a value
RECURSIVE irType(_)
irType(v) ==
  CASE v[1] \in {"arith.constant", "arith.extsi", "arith.extui"} -> v[3]
    [] v[1] = "memref.load" -> v[2][3]
    [] v[1] \in {"arith.addi", "arith.muli"} -> irType(v[2])

\* The verifiers of the arith operations a value is built from: the operands
\* of an addition or multiplication have one type, an extension widens
RECURSIVE WellTyped(_)
WellTyped(v) ==
  CASE v[1] \in {"arith.extsi", "arith.extui"} -> WellTyped(v[2]) /\ irType(v[2]) < v[3]
    [] v[1] \in {"arith.addi", "arith.muli"} ->
         WellTyped(v[2]) /\ WellTyped(v[3]) /\ irType(v[2]) = irType(v[3])
    [] OTHER -> TRUE

\* mlir::verify on a generated function, as far as the generated operations
\* can fail it: the body ends in its only func.return, whose operands are as
\* many as the function's results and of their types
verifyFunc(f) ==
  LET blk == f.regions[1][1]
      ret == blk[Len(blk)]
  IN /\ blk # <<>>
     /\ \A n \in 1..Len(blk) : (blk[n].kind = "func.return") <=> (n = Len(blk))
     /\ Len(ret.opnds) = Len(f.tys[2])
     /\ \A k \in 1..Len(ret.opnds) :
          WellTyped(ret.opnds[k]) /\ irType(ret.opnds[k]) = f.tys[2][k]

\* mlir::verify(mod)
verify(m) ==
  \A c \in 1..Len(m) : \A x \in 1..Len(m[c].regions[1][1]) :
    verifyFunc(m[c].regions[1][1][x])

\* ------------------------------------------------------------------------
\* Inputs of the AST lowering engine
\* ------------------------------------------------------------------------
MaxGenFuncs == 1
MaxGenContracts == 2

U8 == IntegerType(8, FALSE)
U32 == IntegerType(32, FALSE)
U256 == IntegerType(256, FALSE)

\* The declaration of the parameter of function i of contract c
ParamDecl(c, i) == <<"param", c, i>>

\* The function definitions tried at position i of contract c:
\*   function f() {}
\*   function f() returns (uint256) { return 5; }
\*   function f(uint32 p) returns (uint8) { return p + p; }
\*   function f() returns (uint8, uint8) { return 5; }
\*   function f(uint32 p) returns (uint32) { return p; }
\*   function f() returns (uint256) { return x; }      (x a state variable)
\*   function f() returns (uint256) {}
MkFunc(c, i, shape) ==
  LET p == Identifier(ParamDecl(c, i), U32)
      param == [decl |-> ParamDecl(c, i), ty |-> U32]
      name == <<"f", c, i>>
  IN CASE shape = "empty" -> Function(name, <<>>, <<>>, <<>>)
       [] shape = "widen" -> Function(name, <<>>, <<U256>>, <<Return(<<Literal(5)>>)>>)
       [] shape = "narrow" ->
            Function(name, <<param>>, <<U8>>,
                     <<Return(<<BinaryOperation("Add", p, p, U32)>>)>>)
       [] shape = "tworets" -> Function(name, <<>>, <<U8, U8>>, <<Return(<<Literal(5)>>)>>)
       [] shape = "ident" -> Function(name, <<param>>, <<U32>>, <<Return(<<p>>)>>)
       [] shape = "statevar" ->
            Function(name, <<>>, <<U256>>, <<Return(<<Identifier(<<"state", c>>, U256)>>)>>)
       [] shape = "noreturn" -> Function(name, <<>>, <<U256>>, <<>>)

GenContracts(c) ==
  { Contract(<<"C", c>>, [i \in 1..Len(sh) |-> MkFunc(c, i, sh[i])]) :
      sh \in UNION { [1..k -> {"empty", "widen", "narrow", "tworets", "ident",
                                "statevar", "noreturn"}] : k \in 0..MaxGenFuncs } }

RECURSIVE ContractLists(_)
ContractLists(n) ==
  IF n = 0 THEN { <<>> }
  ELSE ContractLists(n - 1)
       \cup { Append(l, c) : l \in { l \in ContractLists(n - 1) : Len(l) = n - 1 },
                             c \in GenContracts(n) }

\* ------------------------------------------------------------------------
\* The AST lowering engine as a state machine (runSolidityToMLIRPass)
\* ------------------------------------------------------------------------
InitGen ==
  /\ gen \in { [pc |-> "gen", contracts |-> l, idx |-> 1, varMemRef |-> <<>>,
                casts |-> <<>>, entered |-> <<>>, verified |-> FALSE,
                jobDone |-> FALSE] : l \in ContractLists(MaxGenContracts) }
  /\ mod = <<>> /\ input = <<>> /\ passState = "idle" /\ last = NoLast
  /\ run = NoRun /\ call = NoCall

\* The state gen.run(*contract) leaves, r being what run(contract) did; a
\* dereference of a null value ends in the death of the process or in anything
GenContractEnd(cont, r) ==
  /\ mod' = Append(mod, MkOp("sol.contract", <<cont.name>>, "none", <<>>, <<>>,
                             << <<r.ops>> >>))
  /\ \E o \in {"crashed", "undefined"} :
       gen' = [gen EXCEPT !.pc = IF r.ub THEN o
                                 ELSE IF r.thrown THEN "thrown" ELSE "gen",
                          !.idx = gen.idx + 1,
                          !.varMemRef = r.map,
                          !.casts = r.casts,
                          !.entered = gen.entered \o r.entered]

\* gen.run(*contract) for the next contract
GenContract ==
  /\ gen.pc = "gen" /\ gen.idx <= Len(gen.contracts)
  /\ GenContractEnd(gen.contracts[gen.idx],
                    runContract(gen.contracts[gen.idx], gen.varMemRef, gen.casts))
  /\ UNCHANGED <<input, passState, last, run, call>>

\* mlir::verify(mod) once every contract is lowered
Verify ==
  /\ gen.pc = "gen" /\ gen.idx > Len(gen.contracts)
  /\ gen' = [gen EXCEPT !.pc = IF verify(mod) THEN "job" ELSE "verifyFailed",
                        !.verified = verify(mod)]
  /\ UNCHANGED <<input, mod, passState, last, run, call>>

\* doJob(job, ctx, mod)
DoJob ==
  /\ gen.pc = "job"
  /\ gen' = [gen EXCEPT !.pc = "done", !.jobDone = TRUE]
  /\ UNCHANGED <<input, mod, passState, last, run, call>>

NextGen == GenContract \/ Verify \/ DoJob

SpecGen == InitGen /\ [][NextGen]_vars

\* ------------------------------------------------------------------------
\* Single calls of run(FunctionDefinition const &)
\* ------------------------------------------------------------------------
MaxStmts == 2

\* The function definitions tried: function f(uint32 p) with no result or a
\* result of type uint8, uint32 or uint256, and a body of Return statements
\* over
\*   return;   return 5;   return p;   return p + p;   return p - p;
\*   return -p;   return -p + p;
FuncInputs ==
  LET p == Identifier(<<"param", "f", 1>>, U32)
      neg == [kind |-> "UnaryOperation", ty |-> U32, val |-> 0, decl |-> <<>>,
              op |-> "Sub", kids |-> <<p>>]
      stmts == { Return(<<>>), Return(<<Literal(5)>>), Return(<<p>>),
                 Return(<<BinaryOperation("Add", p, p, U32)>>),
                 Return(<<BinaryOperation("Sub", p, p, U32)>>),
                 Return(<<neg>>),
                 Return(<<BinaryOperation("Add", neg, p, U32)>>) }
  IN { Function("f", <<[decl |-> <<"param", "f", 1>>, ty |-> U32]>>, rets, body) :
         rets \in { <<>>, <<U8>>, <<U32>>, <<U256>> },
         body \in UNION { [1..k -> stmts] : k \in 0..MaxStmts } }

InitFunc ==
  /\ call \in { [fn |-> "runFunction", func |-> f, done |-> FALSE,
                 res |-> [op |-> <<>>, thrown |-> FALSE, ub |-> FALSE, map |-> <<>>,
                          casts |-> <<>>]] : f \in FuncInputs }
  /\ mod = <<>> /\ input = <<>> /\ passState = "idle" /\ last = NoLast
  /\ run = NoRun /\ gen = NoGen

\* run(func) on a fresh engine; res.ub tells that a null value was
\* dereferenced, after which anything may have happened
CallRunFunction ==
  /\ call.fn = "runFunction" /\ ~call.done
  /\ call' = [call EXCEPT !.done = TRUE, !.res = runFunction(call.func, <<>>, <<>>)]
  /\ UNCHANGED <<input, mod, passState, last, run, gen>>

SpecFunc == InitFunc /\ [][CallRunFunction]_vars

\* ------------------------------------------------------------------------
\* Sequences of calls of the lookup-or-create helpers on one module
\* ------------------------------------------------------------------------
MaxCalls == 3

InitDecl ==
  /\ mod \in { <<>>, <<ObjectOp(Foo, <<RetOp(7, 5)>>)>> }
  /\ call = [fn |-> "getOrInsert", helper |-> "none", name |-> <<>>, before |-> <<>>, n |-> 0]
  /\ input = mod /\ passState = "idle" /\ last = NoLast
  /\ run = NoRun /\ gen = NoGen

\* One call of getOrInsertCreationFuncOp(name, void, {}),
\* getOrInsertRuntimeFuncOp(name, void, {}) or getOrInsertReturn on the module
CallGetOrInsert ==
  /\ call.fn = "getOrInsert" /\ call.n < MaxCalls
  /\ \E c \in ({"creation", "runtime"} \X {<<"__deploy">>, <<"__runtime">>, <<"__return">>})
               \cup {<<"return", <<"__return">>>>} :
       /\ mod' = CASE c[1] = "creation" -> getOrInsertCreationFuncOp(mod, c[2], <<>>)
                   [] c[1] = "runtime" -> getOrInsertRuntimeFuncOp(mod, c[2], <<>>)
                   [] c[1] = "return" -> getOrInsertReturn(mod)
       /\ call' = [call EXCEPT !.helper = c[1], !.name = c[2], !.before = mod, !.n = @ + 1]
  /\ UNCHANGED <<input, passState, last, run, gen>>

SpecDecl == InitDecl /\ [][CallGetOrInsert]_vars

\* ------------------------------------------------------------------------
\* Single calls of inRuntimeContext
\* ------------------------------------------------------------------------
MaxDepth == 3

\* A sol.return below a chain of up to MaxDepth enclosing operations, each the
\* object Foo, the object Foo_deployed or an llvm.func whose isRuntime
\* attribute is true, false or missing; chain[1] is the outermost
InitCtx ==
  /\ \E k \in 0..MaxDepth :
       \E chain \in [1..k -> { ObjectOp(Foo, <<>>), ObjectOp(Foo_deployed, <<>>),
                               MkOp("llvm.func", <<"f">>, "true", <<>>, <<>>, <<>>),
                               MkOp("llvm.func", <<"f">>, "false", <<>>, <<>>, <<>>),
                               MkOp("llvm.func", <<"f">>, "none", <<>>, <<>>, <<>>) }] :
         LET below[n \in 1..(k + 1)] ==
               IF n = k + 1 THEN <<RetOp(7, 5)>>
               ELSE <<[chain[n] EXCEPT !.regions = << <<below[n + 1]>> >>]>>
         IN /\ mod = below[1]
            /\ call = [fn |-> "inRuntimeContext", path |-> [n \in 1..k |-> <<1, 1, 1>>],
                       done |-> FALSE, res |-> "none"]
  /\ input = mod /\ passState = "idle" /\ last = NoLast
  /\ run = NoRun /\ gen = NoGen

\* inRuntimeContext(op) on the sol.return.  Where the assertion on the
\* attribute or llvm_unreachable is reached, a build with assertions aborts
\* and a build without them goes on with a null attribute, or past the end of
\* the function: any result may come back
CallInRuntimeContext ==
  /\ call.fn = "inRuntimeContext" /\ ~call.done
  /\ \E r \in {"fatal", "runtime", "creation"} :
       /\ inRuntimeContext(mod, call.path) \in {r, "fatal"}
       /\ call' = [call EXCEPT !.done = TRUE, !.res = r]
  /\ UNCHANGED <<input, mod, passState, last, run, gen>>

SpecCtx == InitCtx /\ [][CallInRuntimeContext]_vars

\* ------------------------------------------------------------------------
\* Properties
\* ------------------------------------------------------------------------
EntryFuncs == { i \in 1..Len(mod) : mod[i].sym = <<"__entry">> }
IsWordTys(tys, n) ==
  /\ Len(tys) = 1 + n
  /\ tys[1] = "ptr3"
  /\ \A k \in 2..Len(tys) : tys[k] = "i256"

\* C1 (as stated): the synthesized __entry has exactly 13 parameters, one
\* generic-address-space pointer followed by 2 + 10 = 12 i256 parameters.
C1_Original == \A i \in EntryFuncs : IsWordTys(mod[i].tys, 12)

\* C1 (amended): whenever the creation-object rewrite has run, the module
\* holds __entry with exactly 12 parameters: one generic-address-space pointer
\* (the calldata ABI argument, mandatory argument 0) followed by
\* MandatoryArgCnt + ExtraABIDataSize - 1 = 11 i256 parameters, whatever the
\* input module is.
C1_EntryArity ==
  /\ \A i \in EntryFuncs :
       IsWordTys(mod[i].tys, MandatoryArgCnt + ExtraABIDataSize - 1) /\ Len(mod[i].tys) = 12
  /\ (last.rule = "object" /\ last.ctx = "creation") => EntryFuncs # {}

C1_Witness ==
  /\ last.rule = "object" /\ last.ctx = "creation"
  /\ EntryFuncs # {}
  /\ Len(last.op.regions[1][1]) = MaxBody + 1

\* C2: in an execution of __entry exactly one of __deploy and __runtime is
\* called, __deploy exactly when bit 0 of the call-flags argument is 1, and the
\* call is followed by the unreachable terminator.
C2_Dispatch ==
  run.done =>
    LET calls == SelectSeq(run.trace, LAMBDA e : e[1] = "call")
        n == Len(run.trace)
        bit0 == run.args[ArgIndexCallFlags + 1][1] % 2
    IN /\ Len(calls) = 1
       /\ (bit0 = 1) <=> (calls[1][2] = <<"__deploy">>)
       /\ (bit0 = 0) <=> (calls[1][2] = <<"__runtime">>)
       /\ n >= 2
       /\ run.trace[n] = <<"unreachable">>
       /\ run.trace[n - 1] = calls[1]

C2_Witness ==
  /\ run.done
  /\ run.args[ArgIndexCallFlags + 1] = W(3)
  /\ \E k \in 1..Len(run.trace) : run.trace[k] = <<"call", <<"__deploy">> >>

FuncsNamed(name) ==
  LET f == Flatten(mod)
  IN { n \in 1..Len(f) : f[n].kind \in {"llvm.func", "func.func"} /\ f[n].sym = name }
FuncsTagged(attr) ==
  LET f == Flatten(mod)
  IN { n \in 1..Len(f) : f[n].kind = "llvm.func" /\ f[n].attr = attr }
HasNested(m) ==
  /\ Len(m) = 1 /\ m[1].kind = "sol.object" /\ m[1].sym = Foo
  /\ \E k \in 1..Len(m[1].regions[1][1]) :
       /\ m[1].regions[1][1][k].kind = "sol.object"
       /\ m[1].regions[1][1][k].sym = Foo_deployed

\* C3: when the pass has lowered a module that holds the object "Foo" with the
\* nested object "Foo_deployed", the module holds exactly one creation
\* function, one runtime function, one entry function and no object.
C3_Flattening ==
  (HasNested(input) /\ passState = "success") =>
    /\ Cardinality(FuncsNamed(<<"__deploy">>)) = 1
    /\ Cardinality(FuncsTagged("false")) = 1
    /\ Cardinality(FuncsNamed(<<"__runtime">>)) = 1
    /\ Cardinality(FuncsTagged("true")) = 1
    /\ Cardinality(FuncsNamed(<<"__entry">>)) = 1
    /\ CountKind(mod, "sol.object") = 0

C3_Witness ==
  /\ input = <<ObjectOp(Foo, <<ObjectOp(Foo_deployed, <<>>)>>)>>
  /\ passState = "success"
  /\ CountKind(mod, "sol.object") = 0

\* The block a return was rewritten in, and the operations put in its place
LastBlock == BlockAt(mod, last.path)
Emitted(n) == SubSeq(LastBlock, last.at, last.at + n - 1)
Replaced(n) ==
  /\ Len(LastBlock) = Len(last.before) + n - 1
  /\ SubSeq(LastBlock, 1, last.at - 1) = SubSeq(last.before, 1, last.at - 1)
  /\ SubSeq(LastBlock, last.at + n, Len(LastBlock))
     = SubSeq(last.before, last.at + 1, Len(last.before))
AuxHeapSlot(addr) == <<"mem", AddrSpace_HeapAuxiliary, W(addr)>>

\* C4: a return lowered in creation context is replaced by, in this order, a
\* store of 32 to auxiliary-heap address 256, a store of 0 to auxiliary-heap
\* address 288, a call of __return(256, 64, 2) and an unreachable; the
\* return's own operands are not passed to the call.
C4_CreationReturn ==
  (last.rule = "return" /\ last.ctx = "creation") =>
    LET e == Emitted(4)
    IN /\ Replaced(4)
       /\ e[1].kind = "llvm.store"
       /\ EvalConst(e[1].opnds[1]) = W(32)
       /\ Loc(e[1].opnds[2], NoEnv, <<>>) = AuxHeapSlot(256)
       /\ e[2].kind = "llvm.store"
       /\ EvalConst(e[2].opnds[1]) = W(0)
       /\ Loc(e[2].opnds[2], NoEnv, <<>>) = AuxHeapSlot(256 + 32)
       /\ e[3].kind = "func.call" /\ e[3].sym = <<"__return">>
       /\ Len(e[3].opnds) = 3
       /\ EvalConst(e[3].opnds[1]) = W(256)
       /\ EvalConst(e[3].opnds[2]) = W(64)
       /\ EvalConst(e[3].opnds[3]) = W(2)
       /\ e[4].kind = "llvm.unreachable"
       /\ CountKind(mod, "sol.return") = CountKind(SetBlock(mod, last.path, last.before), "sol.return") - 1

C4_Witness ==
  /\ last.rule = "return" /\ last.ctx = "creation"
  /\ last.op = RetOp(7, 5)
  /\ Emitted(4)[4].kind = "llvm.unreachable"

\* C5: a return lowered in runtime context is replaced by exactly a call of
\* __return(its offset operand, its length operand, 0) and an unreachable; no
\* store is created.
C5_RuntimeReturn ==
  (last.rule = "return" /\ last.ctx = "runtime") =>
    LET e == Emitted(2)
    IN /\ Replaced(2)
       /\ e[1].kind = "func.call" /\ e[1].sym = <<"__return">>
       /\ Len(e[1].opnds) = 3
       /\ e[1].opnds[1] = last.op.opnds[1]
       /\ e[1].opnds[2] = last.op.opnds[2]
       /\ EvalConst(e[1].opnds[3]) = W(0)
       /\ e[2].kind = "llvm.unreachable"
       /\ CountKind(mod, "llvm.store")
          = CountKind(SetBlock(mod, last.path, last.before), "llvm.store")
       /\ CountKind(mod, "sol.return") = CountKind(SetBlock(mod, last.path, last.before), "sol.return") - 1

C5_Witness ==
  /\ last.rule = "return" /\ last.ctx = "runtime"
  /\ last.op = RetOp(7, 5)
  /\ Emitted(2)[1].kind = "func.call"

\* The top-level positions of the functions of the contract rewritten last
FuncPos(f) == { n \in 1..Len(mod) : mod[n] = f }

\* C9 (as stated): after the contract rewrite the functions f1, ..., fn of the
\* contract are at module scope in the same relative order, each exactly
\* once, and the emptied container is gone.
C9_OrderPreserved ==
  last.rule = "contract" =>
    LET fs == last.op.regions[1][1]
    IN /\ \A x \in 1..Len(fs) : Cardinality(FuncPos(fs[x])) = 1
       /\ \A x, y \in 1..Len(fs) :
            x < y => \A px \in FuncPos(fs[x]), py \in FuncPos(fs[y]) : px < py
       /\ \A n \in 1..Len(mod) : mod[n].sym # last.op.sym
       /\ CountKind(mod, "sol.contract") = CountKind(last.before, "sol.contract") - 1

\* C10 (as stated): the pass, run on a module that holds a contract container,
\* applies the contract rewrite and completes successfully with the
\* functions of the contract at module scope and no contract container left.
C10_ContractsFlattened ==
  (CountKind(input, "sol.contract") > 0 /\ passState # "running") =>
    /\ passState = "success"
    /\ CountKind(mod, "sol.contract") = 0
    /\ \A c \in 1..Len(input) : \A x \in 1..Len(input[c].regions[1][1]) :
         \E n \in 1..Len(mod) : mod[n] = input[c].regions[1][1][x]

C6_IsInt(t) == t.k \in {"int", "rat"}
C6_Width(t) == IF t.k = "int" THEN t.bits ELSE IF t.val < 256 THEN 8 ELSE 16
C6_Signed(t) == t.k = "int" /\ t.signed

\* C6: genCast from an integer type A to a wider integer type B emits exactly
\* one extension of the value, a sign-extend when B is signed and a
\* zero-extend when B is unsigned; a cast from A to A returns the value
\* itself and emits nothing.
C6_WideningCast ==
  (call.fn = "genCast" /\ call.done) =>
    /\ (C6_IsInt(call.src) /\ C6_IsInt(call.dst) /\ C6_Width(call.dst) > C6_Width(call.src)) =>
         /\ ~call.res.thrown
         /\ call.res.val = <<IF C6_Signed(call.dst) THEN "arith.extsi" ELSE "arith.extui",
                             call.val, C6_Width(call.dst)>>
    /\ (call.src = call.dst) => (~call.res.thrown /\ call.res.val = call.val)

C6_Witness ==
  /\ call.fn = "genCast" /\ call.done
  /\ call.src = IntegerType(8, TRUE) /\ call.dst = IntegerType(32, FALSE)
  /\ call.res.val = <<"arith.extui", call.val, 32>>

\* C8: for a pointer word that holds the length L in the 32 bits at bit offset
\* 96, whatever its other bits are, the value getABILen computes is L.
C8_ABILenRoundTrip ==
  (call.fn = "getABILen" /\ call.done) =>
    call.res = [i \in 1..WordBytes |-> IF i <= 4 THEN call.len[i] ELSE 0]

C8_Witness ==
  /\ call.fn = "getABILen" /\ call.done
  /\ call.len = <<255, 1, 128, 255>>
  /\ call.ptr[12] = 255 /\ call.ptr[17] = 255
  /\ call.res[1] = 255 /\ call.res[4] = 255 /\ call.res[5] = 0

\* A logged genCast call between integer types whose destination is narrower
NarrowingCast(c) ==
  /\ getAsIntTy(c.src) # <<>> /\ getAsIntTy(c.dst) # <<>>
  /\ getAsIntTy(c.dst)[1].bits < getAsIntTy(c.src)[1].bits

\* C7: once run() is entered for a function with two or more declared result
\* types, or genCast is called for a narrowing integer cast (32-bit to 8-bit
\* among them), UnimplementedFeature is thrown; and after the exception the
\* module is neither verified nor handed to the job.
C7_FailFast ==
  /\ (\E n \in 1..Len(gen.entered) : gen.entered[n].rets >= 2) => gen.pc = "thrown"
  /\ \A n \in 1..Len(gen.casts) :
       NarrowingCast(gen.casts[n]) => gen.casts[n].thrown /\ gen.pc = "thrown"
  /\ gen.pc = "thrown" => ~gen.verified /\ ~gen.jobDone

\* a contract was lowered, then a 32-bit to 8-bit cast threw in the next one
C7_Witness ==
  /\ gen.pc = "thrown"
  /\ Len(mod) = 2
  /\ \E n \in 1..Len(gen.casts) :
       /\ gen.casts[n].src = U32 /\ gen.casts[n].dst = U8
       /\ gen.casts[n].thrown


\* The stores of the __entry at module index n whose address is an element of
\* the extra-ABI-data array, as <<argument stored, slot addressed>>
ExtraABIStores(n) ==
  LET blk == mod[n].regions[1][1]
  IN { <<blk[x].opnds[1], ToInt(EvalConst(blk[x].opnds[2][3][2]))>> :
         x \in { x \in 1..Len(blk) :
                   /\ blk[x].kind = "llvm.store"
                   /\ blk[x].opnds[2][1] = "gep"
                   /\ blk[x].opnds[2][2] = AddressOf(GlobExtraABIData) } }

\* C11: in __entry, the k-th argument after the ABI pointer and the call flags
\* (k = 0..9) is stored to slot k of the 10-element extra-ABI-data array, and
\* no store addresses a slot outside 0..9.
C11_ExtraABIInBounds ==
  \A n \in EntryFuncs :
    ExtraABIStores(n) = { <<EntryArg(MandatoryArgCnt + k), k>> : k \in 0..(ExtraABIDataSize - 1) }


\* The values __entry stored to the calldatasize global, in order
CallDataSizeStores ==
  SelectSeq(run.trace,
            LAMBDA e : e[1] = "store" /\ e[2] = <<"glob", GlobCallDataSize, 0>>)

\* C12: the value __entry leaves in the calldatasize global is the length
\* field of its ABI pointer argument: (argument 0 >> 96) & (2^32 - 1).
C12_CallDataSizeFromArg ==
  run.done =>
    /\ CallDataSizeStores # <<>>
    /\ CallDataSizeStores[Len(CallDataSizeStores)][3]
         = AndW(LShrW(run.args[ArgIndexCallDataABI + 1], BitLen_X32 * 3), UINT_MAX)


\* An expression the engine has no lowering for, met before anything else
\* fails: another kind than literal, identifier and binary operation, or a
\* binary operation with another operator than + and *, or with such a left
\* operand
RECURSIVE Unsupported(_)
Unsupported(e) ==
  \/ e.kind \notin {"Literal", "Identifier", "BinaryOperation"}
  \/ /\ e.kind = "BinaryOperation"
     /\ (e.op \notin {"Add", "Mul"} \/ Unsupported(e.kids[1]))

\* C13: lowering a function whose first return statement holds an unsupported
\* expression raises UnimplementedFeature, and no lowering builds an operation
\* from a null value.
C13_FailExplicit ==
  (call.fn = "runFunction" /\ call.done) =>
    /\ ( /\ Len(call.func.rets) = 1
         /\ call.func.body # <<>>
         /\ call.func.body[1].expr # <<>>
         /\ Unsupported(call.func.body[1].expr[1]) ) => call.res.thrown
    /\ ~call.res.ub


\* The values visit(Return const &) got back from genExpr with the declared
\* result type as the requested type: the operands of the func.return
\* operations of the lowered function
ReturnedValues ==
  IF call.res.op = <<>> THEN {}
  ELSE LET blk == call.res.op[1].regions[1][1]
       IN { blk[x].opnds[1] :
              x \in { x \in 1..Len(blk) : blk[x].kind = "func.return" /\ blk[x].opnds # <<>> } }

\* C16: every value genExpr returns for a literal, an identifier or a binary
\* operation when a result type is requested has the IR type of the requested
\* type; an identifier of another type is cast or the cast fails, it is never
\* returned uncast.
C16_FinalCast ==
  (call.fn = "runFunction" /\ call.done /\ ~call.res.ub) =>
    \A v \in ReturnedValues : irType(v) = type(call.func.rets[1]).val


\* C20: the body the engine emits for a function, whatever the number of
\* return statements of the source, is a block whose last operation is a
\* func.return and which holds no other func.return; with no declared result
\* that return is the bare one.
C20_OneReturnLast ==
  (call.fn = "runFunction" /\ call.done /\ ~call.res.thrown /\ ~call.res.ub) =>
    LET blk == call.res.op[1].regions[1][1]
    IN /\ blk # <<>>
       /\ \A n \in 1..Len(blk) : (blk[n].kind = "func.return") <=> (n = Len(blk))
       /\ call.func.rets = <<>> => blk[Len(blk)].opnds = <<>>


\* The operations that end a block
Terminators == {"llvm.unreachable", "llvm.return", "func.return", "scf.yield"}

\* C19: in the module the object and return rewrites leave, every block of
\* __entry, __deploy and __runtime, the blocks nested in their operations
\* included, is not empty, ends in a terminator and holds no terminator
\* before its last operation.
C19_BlocksTerminated ==
  passState = "success" =>
    \A P \in BlockPaths(mod) \ {<<>>} :
      LET blk == BlockAt(mod, P)
      IN /\ blk # <<>>
         /\ \A n \in 1..Len(blk) : (blk[n].kind \in Terminators) <=> (n = Len(blk))


\* The top-level function declarations of a module that carry a name
Decls(m, name) == { i \in 1..Len(m) : m[i].kind = "llvm.func" /\ m[i].sym = name }

\* C17: after any sequence of calls of getOrInsertCreationFuncOp,
\* getOrInsertRuntimeFuncOp and getOrInsertReturn the module holds at most one
\* function declaration per name; a call with a name the module holds already
\* leaves the module as it was, so no declaration is created and no isRuntime
\* attribute changes; a call with a new name adds one declaration and leaves
\* the others as they were.
C17_IdempotentDecl ==
  (call.fn = "getOrInsert" /\ call.n > 0) =>
    /\ \A name \in {<<"__deploy">>, <<"__runtime">>, <<"__return">>} :
         Cardinality(Decls(mod, name)) <= 1
    /\ Decls(call.before, call.name) # {} => mod = call.before
    /\ Decls(call.before, call.name) = {} =>
         /\ Len(mod) = Len(call.before) + 1
         /\ Cardinality(Decls(mod, call.name)) = 1
         /\ \A i \in 1..Len(call.before) : \E j \in 1..Len(mod) : mod[j] = call.before[i]

\* getOrInsertCreationFuncOp was called with the name of a declaration tagged
\* isRuntime = true, after an earlier call had created it
C17_Witness ==
  /\ call.fn = "getOrInsert" /\ call.n >= 2
  /\ call.helper = "creation"
  /\ \E i \in Decls(call.before, call.name) : call.before[i].attr = "true"
  /\ \E i \in Decls(mod, call.name) : mod[i].attr = "true"


\* The enclosing operations of the classified sol.return, outermost first
CtxAncestors == Ancestors(mod, call.path)

\* C15: the context of a return is the isRuntime attribute of the nearest
\* enclosing function if that function carries one; otherwise, with no
\* enclosing function or one without the attribute, it is whether the name of
\* the nearest enclosing object ends in "_deployed"; the fatal error is raised
\* only with neither an enclosing function nor an enclosing object.
C15_Classification ==
  (call.fn = "inRuntimeContext" /\ call.done) =>
    LET anc == CtxAncestors
        f == NearestOfKind(anc, "llvm.func")
        o == NearestOfKind(anc, "sol.object")
    IN /\ (f # 0 /\ anc[f].attr # "none") =>
            call.res = (IF anc[f].attr = "true" THEN "runtime" ELSE "creation")
       /\ ((f = 0 \/ anc[f].attr = "none") /\ o # 0) =>
            call.res = (IF EndsWithDeployed(anc[o].sym) THEN "runtime" ELSE "creation")
       /\ call.res = "fatal" => (f = 0 /\ o = 0)


\* C18: every rewrite that inserts away from the cursor, the declarations of
\* getOrInsertLLVMFuncOp and the __entry the outer-object rewrite creates at
\* the end of the module, returns with the insertion point where it was when
\* the rewrite began: before the rewritten operation.
C18_CursorRestored ==
  last.rule # "none" => last.cursor = <<"before", last.op>>


\* A block with each of its returns replaced by the operations of a context
RECURSIVE LoweredBlock(_, _)
LoweredBlock(blk, ctx) ==
  IF blk = <<>> THEN <<>>
  ELSE (IF Head(blk).kind # "sol.return" THEN <<Head(blk)>>
        ELSE IF ctx = "runtime" THEN RuntimeReturnOps(Head(blk))
        ELSE CreationReturnOps(Head(blk)))
       \o LoweredBlock(Tail(blk), ctx)

\* The module the pass leaves for the object Foo with the nested object
\* Foo_deployed when the outer object is rewritten first and the returns
\* after it, which is the order of the pre-order walk of the conversion
ExpectedModule(m) ==
  LET body == m[1].regions[1][1]
      nested == SelectSeq(body, LAMBDA o : o.kind = "sol.object")[1]
      c2 == getOrInsertRuntimeFuncOp(EntryDecls(<<EntryFunc>>), <<"__runtime">>, <<>>)
      c3 == inlineRegionBefore(c2, <<"__runtime">>,
                               <<LoweredBlock(nested.regions[1][1], "runtime")>>)
      c4 == getOrInsertCreationFuncOp(c3, <<"__deploy">>, <<>>)
      c5 == inlineRegionBefore(c4, <<"__deploy">>,
                               <<LoweredBlock(WithoutObjects(body), "creation")>>)
  IN IF CountKind(m, "sol.return") > 0 THEN getOrInsertReturn(c5) ELSE c5

\* C14 (as stated): whatever the order of the object and return rewrites, the
\* pass leaves the same module for the object Foo with the nested object
\* Foo_deployed.
C14_Original ==
  (HasNested(input) /\ passState = "success") => mod = ExpectedModule(input)

\* C14 (amended): whatever the order of the object and return rewrites, the
\* pass leaves the same module-level operations, each once, for the object
\* Foo with the nested object Foo_deployed; only their order in the module
\* depends on the order of the rewrites.  So every return of the outer body
\* is lowered as a creation return in __deploy, every return of the nested
\* body as a runtime return in __runtime, and __runtime holds the nested body
\* once.
C14_OrderIndependent ==
  (HasNested(input) /\ passState = "success") =>
    LET E == ExpectedModule(input)
    IN /\ Len(mod) = Len(E)
       /\ \A i \in 1..Len(E) : \E j \in 1..Len(mod) : mod[j] = E[i]

\* Both bodies hold a return, and the outer object was rewritten last, after
\* the returns and the nested object
C14_Witness ==
  /\ input = <<ObjectOp(Foo, <<RetOp(7, 5), ObjectOp(Foo_deployed, <<RetOp(7, 5)>>)>>)>>
  /\ passState = "success"
  /\ last.rule = "object" /\ last.ctx = "creation"
  /\ mod # ExpectedModule(input)


\* The module holds the function of a name and its region is one block
HasOneBlock(name) ==
  LET f == lookupLLVMFuncOp(mod, name)
  IN f # 0 /\ Len(mod[f].regions) = 1 /\ Len(mod[f].regions[1]) = 1

\* That block
BodyOf(name) == mod[lookupLLVMFuncOp(mod, name)].regions[1][1]

\* The operations that stand for the returns of the bodies: those not yet
\* lowered and the llvm.unreachable of those lowered, wherever they are but in
\* __entry, which holds an llvm.unreachable of its own
ReturnCount(m) ==
  CountKind(m, "sol.return")
  + CountKind(SelectSeq(m, LAMBDA o : o.kind # "func.func"), "llvm.unreachable")

\* C21: for the object Foo with the nested object Foo_deployed, no body
\* operation is copied or dropped by any rewrite, and once both objects are
\* rewritten __runtime holds the operations of the nested body, each once and
\* in their order, __deploy holds the other operations of the outer body,
\* each once and in their order, and no object holds anything.
C21_OwnershipTransfer ==
  (HasNested(input) /\ passState # "failed") =>
    LET body == input[1].regions[1][1]
        nested == SelectSeq(body, LAMBDA o : o.kind = "sol.object")[1]
    IN /\ CountKind(mod, "arith.constant") = CountKind(input, "arith.constant")
       /\ ReturnCount(mod) = CountKind(input, "sol.return")
       /\ CountKind(mod, "sol.object") = 0 =>
            /\ HasOneBlock(<<"__runtime">>)
            /\ LoweredBlock(BodyOf(<<"__runtime">>), "runtime")
                 = LoweredBlock(nested.regions[1][1], "runtime")
            /\ HasOneBlock(<<"__deploy">>)
            /\ LoweredBlock(BodyOf(<<"__deploy">>), "creation")
                 = LoweredBlock(WithoutObjects(body), "creation")

\* The outer-object rewrite has just run and no object is left; the outer body
\* held a constant and a return before the nested object, the nested body a
\* constant
C21_Witness ==
  /\ input = <<ObjectOp(Foo, <<MkOp("arith.constant", NoSym, "none", <<>>, <<getConst(42)>>, <<>>),
                               RetOp(7, 5),
                               ObjectOp(Foo_deployed,
                                 <<MkOp("arith.constant", NoSym, "none", <<>>, <<getConst(42)>>, <<>>)>>)>>)>>
  /\ CountKind(mod, "sol.object") = 0
  /\ last.rule = "object" /\ last.ctx = "creation"
  /\ HasOneBlock(<<"__runtime">>) /\ HasOneBlock(<<"__deploy">>)
  /\ Len(BodyOf(<<"__runtime">>)) = 1
  /\ BodyOf(<<"__deploy">>)[1].kind = "arith.constant"


\* C22: varMemRef gets a binding only from the lowering of a parameter, so an
\* identifier read never adds one and never yields a null slot, and the
\* bindings of a function are gone when its lowering has completed: between
\* two functions, and after the last, the map is empty.
C22_BindingScope ==
  gen.pc # "none" =>
    /\ \A n \in 1..Len(gen.varMemRef) :
         /\ gen.varMemRef[n][1][1] = "param"
         /\ gen.varMemRef[n][2] # NullValue
    /\ gen.pc \in {"gen", "job", "done", "verifyFailed"} => gen.varMemRef = <<>>

====
